---- MODULE Spec2Model ----
(***************************************************************************)
(* Routing-and-context layer of the career assistant:                      *)
(*   Orchestrator.route_query / clear_memory  (src/src/agents/orchestrator.py) *)
(*   SQLAgent.run                              (src/src/agents/sql_agent.py)   *)
(*   RAGAgent.run / retrieve_documents         (src/src/agents/rag_agent.py)   *)
(*   the Smart Chat handler                    (src/app.py)                    *)
(*                                                                         *)
(* Strings.  A user query is a tuple of one-character strings, so that     *)
(* str.lower() and the substring test `word in s` are computed.  The       *)
(* content of a history turn is a record [id, len, kw]: its identity, its  *)
(* length in characters and the keywords that occur in it.  A rendered     *)
(* text is a sequence of pieces (a literal, a slice of a content, a query) *)
(* each with its length in characters, so that slices such as [:200] and   *)
(* [:500] are computed with the program's own numbers.                     *)
(***************************************************************************)
EXTENDS Integers, Sequences, FiniteSets, TLC

\* ------------------------------------------------------------------ bounds
\* longest caller-supplied history (longer than HistoryKeep, so that the
\* slice history[-10:] drops turns)
MaxHistory == 11

\* most turns the Smart Chat page accumulates in st.session_state.messages
MaxMessages == 4

\* documents of the collection that match a query (more than RetrieveLimit)
MaxHits == 4

\* ------------------------------------------------------- program constants
HistoryKeep == 10
SummaryTurns == 5
ChatTurns == 6
UserSlice == 200
JobSlice == 500
RouterSlice == 500
RetrieveLimit == 3

Threads == {1, 2}
Callers == {1}
Sessions == {"default", "s1"}

Min(a, b) == IF a < b THEN a ELSE b

\* ------------------------------------------------------------ user queries
\* str.lower() on the characters the queries use
LowerChar(c) ==
    CASE c = "D" -> "d"
      [] c = "P" -> "p"
      [] c = "J" -> "j"
      [] OTHER -> c

Lower(s) == [i \in 1..Len(s) |-> LowerChar(s[i])]

\* Python's `w in s` on strings
IsSubstring(w, s) ==
    \E i \in 0..(Len(s) - Len(w)) : SubSeq(s, i + 1, i + Len(w)) = w

\* the word lists of route_query
ReferenceWords ==
    { <<"n","o","m","o","r">>, <<"n","o",".">>,
      <<"l","o","w","o","n","g","a","n">>,
      <<"p","o","i","n","t">>, <<"p","o","i","n">> }

SqlCueWords ==
    { <<"b","e","r","a","p","a">>, <<"j","u","m","l","a","h">>,
      <<"s","t","a","t","i","s","t","i","k">>, <<"d","a","t","a">> }

HasReferenceWord(q) == \E w \in ReferenceWords : IsSubstring(w, Lower(q))
HasSqlCue(q) == \E w \in SqlCueWords : IsSubstring(w, Lower(q))

\* the queries the callers send
Queries ==
    { <<"h","a","l","o">>,
      <<"D","a","t","a","?">>,
      <<"n","o","."," ","2">>,
      <<" ">>,
      << >> }

\* an empty or whitespace-only query (user_query.strip() == "")
IsBlank(q) == \A i \in 1..Len(q) : q[i] = " "

\* ------------------------------------------------------------ history turns
JobKeywords == {"lowongan", "Lowongan", "job", "Job"}
ListKeywords == {"lowongan", "Lowongan"}

\* the i-th turn of the conversation the callers' histories are cut from:
\* user turns at odd positions, assistant turns at even ones; turn 2 is a
\* long job list, turn 4 a long answer about a job, turn 1 a long question
ScriptContent(i) ==
    CASE i = 1 -> [id |-> 1, len |-> 250, kw |-> {}]
      [] i = 2 -> [id |-> 2, len |-> 600, kw |-> {"lowongan"}]
      [] i = 4 -> [id |-> 4, len |-> 520, kw |-> {"Job"}]
      [] OTHER -> [id |-> i, len |-> 40, kw |-> {}]

ScriptTurn(i) ==
    [role |-> IF i % 2 = 1 THEN "user" ELSE "assistant", content |-> ScriptContent(i)]

\* the history argument: a list of {"role", "content"} dicts; << >> stands
\* for both None and [] (the code tests it only with `if history`)
HistoryLengths == {0, 2, 7} \cup (HistoryKeep..MaxHistory)
Histories == { [i \in 1..n |-> ScriptTurn(i)] : n \in HistoryLengths }

\* history[-n:]
LastN(h, n) == IF Len(h) > n THEN SubSeq(h, Len(h) - n + 1, Len(h)) ELSE h

\* ------------------------------------------------------------------- texts
NoContent == [id |-> 0, len |-> 0, kw |-> {}]

Lit(s, n) == [k |-> "lit", s |-> s, c |-> NoContent, q |-> << >>, n |-> n]
Slice(c, n) == [k |-> "content", s |-> "", c |-> c, q |-> << >>, n |-> Min(c.len, n)]
Whole(c) == [k |-> "content", s |-> "", c |-> c, q |-> << >>, n |-> c.len]
QueryPiece(q) == [k |-> "query", s |-> "", c |-> NoContent, q |-> q, n |-> Len(q)]

JobListMarker == Lit("[DAFTAR LOWONGAN DIBERIKAN SEBELUMNYA]\n", 39)
Ellipsis == Lit("...", 3)
UserLabel == Lit("User: ", 6)
AssistantLabel == Lit("Assistant: ", 11)
Newline == Lit("\n", 1)
SpecificHeader == Lit("Konteks spesifik (dari percakapan sebelumnya):\n", 47)
BlankLine == Lit("\n\n", 2)
RouterContextLabel == Lit("Konteks percakapan sebelumnya: ", 31)
RouterQuestionLabel == Lit("\n\nPertanyaan user: ", 19)
RagQuestionLabel == Lit("\n\nPertanyaan user: ", 19)
ChatSystemPrompt == Lit("Anda adalah Asisten Karir AI ... KONTEKS PERCAKAPAN SEBELUMNYA:\n", 603)
NoConversationMarker == Lit("\n[Tidak ada percakapan sebelumnya]\n", 35)

RECURSIVE TextLen(_)
TextLen(t) == IF t = << >> THEN 0 ELSE Head(t).n + TextLen(Tail(t))

\* t[:n] on a rendered text
RECURSIVE TakeChars(_, _)
TakeChars(t, n) ==
    IF t = << >> \/ n <= 0 THEN << >>
    ELSE IF Head(t).n <= n
         THEN <<Head(t)>> \o TakeChars(Tail(t), n - Head(t).n)
         ELSE IF Head(t).k = "query"
              THEN << QueryPiece(SubSeq(Head(t).q, 1, n)) >>
              ELSE << [Head(t) EXCEPT !.n = n] >>

RECURSIVE Join(_, _)
Join(parts, sep) ==
    IF parts = << >> THEN << >>
    ELSE IF Len(parts) = 1 THEN parts[1]
    ELSE parts[1] \o <<sep>> \o Join(Tail(parts), sep)

\* ------------------------------------------------- Orchestrator: rendering
HasAny(content, words) == content.kw \cap words # {}

SummaryPart_NoSlice(msg) ==
    LET role == IF msg.role = "user" THEN "User" ELSE "Assistant"
    IN  IF role = "Assistant" /\ HasAny(msg.content, JobKeywords)
        THEN << JobListMarker, Whole(msg.content), Ellipsis >>
        ELSE << IF role = "User" THEN UserLabel ELSE AssistantLabel,
                Whole(msg.content) >>

\* one entry of summary_parts in _create_context_summary
SummaryPart(msg) ==
    LET role == IF msg.role = "user" THEN "User" ELSE "Assistant"
    IN  IF role = "Assistant" /\ HasAny(msg.content, JobKeywords)
        THEN << JobListMarker, Slice(msg.content, JobSlice), Ellipsis >>
        ELSE << IF role = "User" THEN UserLabel ELSE AssistantLabel,
                Slice(msg.content, UserSlice) >>

_create_context_summary(history) ==
    IF history = << >> THEN << >>
    ELSE LET recent_history == LastN(history, SummaryTurns)
         IN  Join([i \in 1..Len(recent_history) |-> SummaryPart(recent_history[i])],
                  Newline)

\* positions of the assistant turns of history that hold a job list
ListTurns(history) ==
    { i \in 1..Len(history) :
        history[i].role = "assistant" /\ HasAny(history[i].content, ListKeywords) }

SetMax(S) == CHOOSE x \in S : \A y \in S : y <= x

ContextRef_SummaryOnly(user_query, history) ==
    IF history = << >> THEN << >> ELSE _create_context_summary(history)

\* context_ref as route_query builds it (step 2)
ContextRef(user_query, history) ==
    IF history = << >> THEN << >>
    ELSE IF HasReferenceWord(user_query) /\ ListTurns(history) # {}
         THEN << SpecificHeader,
                 Whole(history[SetMax(ListTurns(history))].content),
                 BlankLine >>
         ELSE _create_context_summary(history)

\* query_with_context, the text the router prompt is filled with
RouterInput(context_ref, user_query) ==
    << RouterContextLabel >> \o TakeChars(context_ref, RouterSlice)
        \o << RouterQuestionLabel, QueryPiece(user_query) >>

\* --------------------------------------------------------------- responders
Apology == "Maaf, ada kendala teknis. Bisa ulangi pertanyaannya?"
SqlError == "Error executing query: 'SQLAgent' object has no attribute 'langfuse_handler'"
\* the sentence smart_prompt tells the model to say when the context lacks
\* the item asked for (rag_agent.py line 146)
LacksInfo == "Based on our conversation, I don't see that specific item. Let me check..."
\* texts the generation backend returns
Answers == {"Found 3: Job A, Job B, Job C", LacksInfo}
\* what the SQL agent executor returns, and the text made of its error
SqlOutput == "There are 120 jobs in the database."
SqlBackendError == "Error executing query: (sqlite3.OperationalError) no such table"
NoResult == "<none>"

Tokens == {"USE_SQL", "USE_RAG", "CHAT"}
\* what the router chain returns: the category tokens its output names
Decisions == SUBSET Tokens

NoRequest == [to |-> "none", text |-> << >>, system |-> << >>, turns |-> << >>]

Responder_RagFirst(decision) ==
    IF "USE_RAG" \in decision THEN "rag"
    ELSE IF "USE_SQL" \in decision THEN "sql"
    ELSE "chat"

\* lines 137-153: the branch of step 4
Responder(decision) ==
    IF "USE_SQL" \in decision THEN "sql"
    ELSE IF "USE_RAG" \in decision THEN "rag"
    ELSE "chat"

SqlRequest_AlwaysContext(context_ref, user_query) ==
    IF TextLen(context_ref) > 0
    THEN context_ref \o << BlankLine, QueryPiece(user_query) >>
    ELSE << QueryPiece(user_query) >>

\* lines 139-142: the text handed to sql_agent.run
SqlRequest(context_ref, user_query) ==
    IF TextLen(context_ref) > 0 /\ HasSqlCue(user_query)
    THEN context_ref \o << BlankLine, QueryPiece(user_query) >>
    ELSE << QueryPiece(user_query) >>

\* the text handed to rag_agent.run
RagRequest(context_ref, user_query) ==
    context_ref \o << RagQuestionLabel, QueryPiece(user_query) >>

\* the system message of _handle_chat_with_context
ChatSystem(history) ==
    IF history # << >>
    THEN << ChatSystemPrompt, Newline >> \o _create_context_summary(history) \o << Newline >>
    ELSE << ChatSystemPrompt, NoConversationMarker >>

BuildRequest_BlankToChat(responder, context_ref, user_query, history) ==
    CASE responder = "sql" /\ ~IsBlank(user_query) ->
           [to |-> "sql", text |-> SqlRequest(context_ref, user_query),
            system |-> << >>, turns |-> << >>]
      [] responder = "rag" /\ ~IsBlank(user_query) ->
           [to |-> "rag", text |-> RagRequest(context_ref, user_query),
            system |-> << >>, turns |-> << >>]
      [] OTHER ->
           [to |-> "chat", text |-> << QueryPiece(user_query) >>,
            system |-> ChatSystem(history), turns |-> LastN(history, ChatTurns)]

\* lines 137-153: the responder called and what it is called with
BuildRequest(responder, context_ref, user_query, history) ==
    CASE responder = "sql" ->
           [to |-> "sql", text |-> SqlRequest(context_ref, user_query),
            system |-> << >>, turns |-> << >>]
      [] responder = "rag" ->
           [to |-> "rag", text |-> RagRequest(context_ref, user_query),
            system |-> << >>, turns |-> << >>]
      [] OTHER ->
           [to |-> "chat", text |-> << QueryPiece(user_query) >>,
            system |-> ChatSystem(history), turns |-> LastN(history, ChatTurns)]

\* SQLAgent.__init__ (lines 16-63) assigns db, llm, toolkit and
\* agent_executor; it never assigns self.langfuse_handler
SqlHandlerSet == FALSE

SQLAgentRun_NoCatch(request, backend) ==
    IF ~SqlHandlerSet \/ backend = "raise"
    THEN [raised |-> TRUE, retrieval |-> "none", backend |-> backend,
          index |-> "unused", ndocs |-> 0, gen |-> "unused", result |-> NoResult]
    ELSE [raised |-> FALSE, retrieval |-> "none", backend |-> backend,
          index |-> "unused", ndocs |-> 0, gen |-> "unused", result |-> SqlOutput]

\* SQLAgent.run: the argument list of agent_executor.invoke reads
\* self.langfuse_handler (line 92); the AttributeError, like any error of the
\* executor, is caught by run's own except and returned as text
SQLAgentRun(request, backend) ==
    [raised |-> FALSE, retrieval |-> "none", backend |-> backend,
     index |-> "unused", ndocs |-> 0, gen |-> "unused",
     result |-> IF ~SqlHandlerSet THEN SqlError
                ELSE IF backend = "raise" THEN SqlBackendError
                ELSE SqlOutput]

\* documents of the collection that match the query
Hits(index) == IF index = "docs" THEN MaxHits ELSE 0

RetrieveDocuments_NoCatch(index, limit) ==
    [raised |-> index = "raise", ndocs |-> Min(Hits(index), limit)]

\* RAGAgent.retrieve_documents: at most `limit` points are asked for; any
\* error of the embedding or the index is caught and an empty list returned
RetrieveDocuments(index, limit) ==
    [raised |-> FALSE, ndocs |-> Min(Hits(index), limit)]

HasJobListMarker(text) == \E i \in 1..Len(text) : text[i] = JobListMarker

\* the prompts of RAGAgent: self.prompt (lines 51-68) forbids "I don't know"
\* answers; smart_prompt (lines 134-152) does not, and tells the model to say
\* that it does not see the item
PromptForbidsLackingInfo(prompt) == prompt = "prompt"

\* line 155: chain = smart_prompt | self.llm | StrOutputParser()
PromptUsed == "smart_prompt"

\* the text the generation backend returns for a prompt: a model that is
\* told not to say it lacks information answers from general knowledge
Generate(prompt, answer) ==
    IF PromptForbidsLackingInfo(prompt) /\ answer = LacksInfo
    THEN "Found 3: Job A, Job B, Job C"
    ELSE answer

RAGAgentRun_AlwaysRetrieve(request, index, gen, answer) ==
    LET docs == RetrieveDocuments(index, RetrieveLimit)
        retrieval == IF docs.ndocs = 0 THEN "empty" ELSE "docs"
    IN  IF docs.raised \/ gen = "raise"
        THEN [raised |-> TRUE, retrieval |-> retrieval, backend |-> "unused",
              index |-> index, ndocs |-> docs.ndocs, gen |-> gen, result |-> NoResult]
        ELSE [raised |-> FALSE, retrieval |-> retrieval, backend |-> "unused",
              index |-> index, ndocs |-> docs.ndocs, gen |-> gen,
              result |-> Generate(PromptUsed, answer)]

\* RAGAgent.run: when the request carries the job-list marker the context is
\* cut out of the request and no retrieval is made (lines 107-118); otherwise
\* the documents retrieved, or the no-data text, are the context (lines
\* 124-131); the generation call (line 157) is outside any try
RAGAgentRun(request, index, gen, answer) ==
    IF HasJobListMarker(request.text)
    THEN IF gen = "raise"
         THEN [raised |-> TRUE, retrieval |-> "skipped", backend |-> "unused",
               index |-> "unused", ndocs |-> 0, gen |-> gen, result |-> NoResult]
         ELSE [raised |-> FALSE, retrieval |-> "skipped", backend |-> "unused",
               index |-> "unused", ndocs |-> 0, gen |-> gen,
               result |-> Generate(PromptUsed, answer)]
    ELSE LET docs == RetrieveDocuments(index, RetrieveLimit)
             retrieval == IF docs.ndocs = 0 THEN "empty" ELSE "docs"
         IN  IF docs.raised \/ gen = "raise"
             THEN [raised |-> TRUE, retrieval |-> retrieval, backend |-> "unused",
                   index |-> index, ndocs |-> docs.ndocs, gen |-> gen, result |-> NoResult]
             ELSE [raised |-> FALSE, retrieval |-> retrieval, backend |-> "unused",
                   index |-> index, ndocs |-> docs.ndocs, gen |-> gen,
                   result |-> Generate(PromptUsed, answer)]

\* _handle_chat_with_context: chat_chain.invoke({})
ChatRun(request, gen, answer) ==
    IF gen = "raise"
    THEN [raised |-> TRUE, retrieval |-> "none", backend |-> "unused",
          index |-> "unused", ndocs |-> 0, gen |-> gen, result |-> NoResult]
    ELSE [raised |-> FALSE, retrieval |-> "none", backend |-> "unused",
          index |-> "unused", ndocs |-> 0, gen |-> gen, result |-> answer]

RunResponder(request, backend, index, gen, answer) ==
    CASE request.to = "sql" -> SQLAgentRun(request, backend)
      [] request.to = "rag" -> RAGAgentRun(request, index, gen, answer)
      [] OTHER -> ChatRun(request, gen, answer)

\* -------------------------------------------------------------------- state
VARIABLES
    context_memory,   \* Orchestrator.context_memory: session id -> list of turns
    call,             \* per thread: the call in progress or last completed
    messages          \* st.session_state.messages of the Smart Chat page

vars == << context_memory, call, messages >>

NoCall ==
    [pc |-> "idle", op |-> "none", repeated |-> FALSE,
     user_query |-> << >>, history |-> << >>, session_id |-> "none",
     from_app |-> FALSE, pre |-> << >>, context_ref |-> << >>,
     router_input |-> << >>, classified |-> "no", decision |-> {},
     request |-> NoRequest, retrieval |-> "none", backend |-> "unused",
     index |-> "unused", ndocs |-> 0, gen |-> "unused", raised |-> "none",
     escaped |-> FALSE, result |-> NoResult, calls |-> << >>]

Init ==
    /\ context_memory = << >>
    /\ call = [t \in Threads |-> NoCall]
    /\ messages = << >>

Put_Extend(mem, s, v) ==
    [x \in DOMAIN mem \cup {s} |->
        IF x = s THEN (IF s \in DOMAIN mem THEN mem[s] \o v ELSE v) ELSE mem[x]]

\* self.context_memory[s] = v
Put(mem, s, v) == [x \in DOMAIN mem \cup {s} |-> IF x = s THEN v ELSE mem[x]]
Del_All(mem, s) == << >>

\* del mem[s]
Del(mem, s) == [x \in DOMAIN mem \ {s} |-> mem[x]]

\* the call (op, session_id) comes right after the same call by the same caller
Repeats(c, op, session_id) == c.op = op /\ c.session_id = session_id

\* where a route_query call goes when it returns
AfterReturn(c) == IF c.from_app THEN "app_record" ELSE "idle"

\* ------------------------------------------------------------- route_query
\* route_query is entered; lines 105-106 create the session's entry
RouteEnter(t, user_query, history, session_id, from_app) ==
    /\ call[t].pc = "idle"
    /\ context_memory' =
         IF session_id \notin DOMAIN context_memory
         THEN Put(context_memory, session_id, << >>)
         ELSE context_memory
    /\ call' = [call EXCEPT ![t] =
         [NoCall EXCEPT !.pc = "store", !.op = "route",
                        !.user_query = user_query, !.history = history,
                        !.session_id = session_id, !.from_app = from_app,
                        !.pre = context_memory]]

\* a caller of the Orchestrator's API
RouteQuery(t) ==
    /\ \E user_query \in Queries, history \in Histories, session_id \in Sessions :
         RouteEnter(t, user_query, history, session_id, FALSE)
    /\ UNCHANGED messages

\* lines 108-124: store the caller's history, build context_ref
StoredHistory_NoSlice(history) == history

StoredHistory_Oldest(history) ==
    IF Len(history) > HistoryKeep THEN SubSeq(history, 1, HistoryKeep) ELSE history

\* line 110: history[-10:]
StoredHistory(history) == LastN(history, HistoryKeep)

RouteStore(t) ==
    LET c == call[t] IN
    /\ c.pc = "store"
    /\ context_memory' =
         IF c.history # << >>
         THEN Put(context_memory, c.session_id, StoredHistory(c.history))
         ELSE context_memory
    /\ call' = [call EXCEPT ![t].pc = "classify",
                            ![t].context_ref = ContextRef(c.user_query, c.history)]
    /\ UNCHANGED messages

ClassifierFailed_DefaultRag(c) ==
    [c EXCEPT !.pc = "dispatch", !.classified = "raised",
              !.raised = "classifier", !.decision = {"USE_RAG"}]

\* the router chain raises inside the try: control goes to the except clause
\* of line 155, which logs and returns the apology
ClassifierFailed(c) ==
    [c EXCEPT !.pc = AfterReturn(c), !.classified = "raised",
              !.raised = "classifier", !.escaped = FALSE, !.result = Apology]

RouteOutcome_NoCatch(out) ==
    [raised |-> IF out.raised THEN "responder" ELSE "none",
     escaped |-> out.raised, result |-> out.result]

\* lines 141-157: what the responder returns is returned; what it raises is
\* caught by `except Exception` and the apology returned
RouteOutcome(out) ==
    [raised |-> IF out.raised THEN "responder" ELSE "none",
     escaped |-> FALSE,
     result |-> IF out.raised THEN Apology ELSE out.result]

\* lines 126-131: the router chain is invoked; it returns a decision (one of
\* decisions) or raises
RouteClassifyOn(t, decisions) ==
    LET c == call[t]
        router_input == RouterInput(c.context_ref, c.user_query)
    IN
    /\ c.pc = "classify"
    /\ \/ \E decision \in decisions :
            call' = [call EXCEPT ![t].pc = "dispatch",
                                 ![t].router_input = router_input,
                                 ![t].classified = "returned",
                                 ![t].decision = decision,
                                 ![t].calls = Append(c.calls, "classifier")]
       \/ call' = [call EXCEPT ![t] =
                     ClassifierFailed([c EXCEPT !.router_input = router_input,
                                                !.calls = Append(c.calls, "classifier")])]
    /\ UNCHANGED << context_memory, messages >>

RouteClassify(t) == RouteClassifyOn(t, Decisions)

Callees_IndependentTests(decision) ==
    (IF "USE_SQL" \in decision THEN << "sql" >> ELSE << >>)
      \o (IF "USE_RAG" \in decision THEN << "rag" >> ELSE << >>)
      \o (IF "USE_SQL" \notin decision /\ "USE_RAG" \notin decision
          THEN << "chat" >> ELSE << >>)

\* lines 137-153: the responders an if / elif / else chain calls, each branch
\* returning the result of its one call
Callees(decision) == << Responder(decision) >>

\* lines 137-157: the responder of the decision is called with its request;
\* what it returns is returned, what it raises is turned into the apology
RouteDispatchOn(t, backends, indexes, gens, answers) ==
    LET c == call[t]
        request == BuildRequest(Responder(c.decision), c.context_ref,
                                c.user_query, c.history)
    IN
    /\ c.pc = "dispatch"
    /\ \E backend \in backends, index \in indexes, gen \in gens, answer \in answers :
         LET out == RunResponder(request, backend, index, gen, answer)
             ret == RouteOutcome(out)
         IN  call' = [call EXCEPT ![t].pc = AfterReturn(c),
                                  ![t].calls = c.calls \o Callees(c.decision),
                                  ![t].request = request,
                                  ![t].retrieval = out.retrieval,
                                  ![t].backend = out.backend,
                                  ![t].index = out.index,
                                  ![t].ndocs = out.ndocs,
                                  ![t].gen = out.gen,
                                  ![t].raised = ret.raised,
                                  ![t].escaped = ret.escaped,
                                  ![t].result = ret.result]
    /\ UNCHANGED << context_memory, messages >>

RouteDispatch_Recording(t) ==
    LET c == call[t]
        request == BuildRequest(Responder(c.decision), c.context_ref,
                                c.user_query, c.history)
    IN
    /\ c.pc = "dispatch"
    /\ \E backend \in {"ok", "raise"}, index \in {"docs", "empty", "raise"},
          gen \in {"ok", "raise"}, answer \in Answers :
         LET out == RunResponder(request, backend, index, gen, answer)
             ret == RouteOutcome(out)
         IN  /\ call' = [call EXCEPT ![t].pc = AfterReturn(c),
                                     ![t].calls = c.calls \o Callees(c.decision),
                                     ![t].request = request,
                                     ![t].retrieval = out.retrieval,
                                     ![t].backend = out.backend,
                                     ![t].index = out.index,
                                     ![t].ndocs = out.ndocs,
                                     ![t].gen = out.gen,
                                     ![t].raised = ret.raised,
                                     ![t].escaped = ret.escaped,
                                     ![t].result = ret.result]
             /\ context_memory' =
                  IF out.raised THEN context_memory
                  ELSE Put(context_memory, c.session_id,
                           StoredHistory(c.history \o
                              << [role |-> "assistant", content |-> NoContent] >>))
    /\ UNCHANGED messages

RouteDispatch(t) ==
    RouteDispatchOn(t, {"ok", "raise"}, {"docs", "empty", "raise"},
                    {"ok", "raise"}, Answers)

\* ------------------------------------------------------------ clear_memory
ClearGuard_Always(mem, session_id) == TRUE

\* line 204: if session_id in self.context_memory
ClearGuard(mem, session_id) == session_id \in DOMAIN mem

\* clear_memory(session_id) is entered and the membership test made
ClearEnter(t, session_id) ==
    /\ call[t].pc = "idle"
    /\ call' = [call EXCEPT ![t] =
           [NoCall EXCEPT !.pc = IF ClearGuard(context_memory, session_id)
                                 THEN "delete" ELSE "idle",
                          !.op = "clear",
                          !.repeated = Repeats(call[t], "clear", session_id),
                          !.session_id = session_id,
                          !.pre = context_memory]]
    /\ UNCHANGED << context_memory, messages >>

ClearMemory(t) == \E session_id \in Sessions : ClearEnter(t, session_id)

\* line 205: del self.context_memory[session_id]; KeyError when the key is gone
ClearDelete(t) ==
    LET c == call[t] IN
    /\ c.pc = "delete"
    /\ IF c.session_id \in DOMAIN context_memory
       THEN /\ context_memory' = Del(context_memory, c.session_id)
            /\ call' = [call EXCEPT ![t].pc = "idle"]
       ELSE /\ context_memory' = context_memory
            /\ call' = [call EXCEPT ![t].pc = "idle", ![t].raised = "KeyError",
                                    ![t].escaped = TRUE]
    /\ UNCHANGED messages

\* ------------------------------------------------- Smart Chat page (app.py)
\* lines 52-59: the prompt is appended and route_query(prompt) is called,
\* with no history and the default session id
AppChatInput(t) ==
    /\ Len(messages) + 2 <= MaxMessages
    /\ \E prompt \in Queries \ {<< >>} :
         /\ messages' = Append(messages, [role |-> "user", content |-> prompt])
         /\ RouteEnter(t, prompt, << >>, "default", TRUE)

\* line 61: the response is appended, whatever it is
AppRecord(t) ==
    /\ call[t].pc = "app_record"
    /\ messages' = Append(messages, [role |-> "assistant", content |-> call[t].result])
    /\ call' = [call EXCEPT ![t].pc = "idle"]
    /\ UNCHANGED context_memory

\* lines 64-69: the Clear Chat button
AppClearChat ==
    /\ \A t \in Threads : call[t].pc = "idle"
    /\ Len(messages) > 0
    /\ messages' = << >>
    /\ UNCHANGED << context_memory, call >>

\* ---------------------------------------------------------- specifications
\* one caller of route_query / clear_memory at a time
Next ==
    \E t \in Callers :
        \/ RouteQuery(t)
        \/ RouteStore(t)
        \/ RouteClassify(t)
        \/ RouteDispatch(t)
        \/ ClearMemory(t)
        \/ ClearDelete(t)

Spec == Init /\ [][Next]_vars

\* the Smart Chat page driving the Orchestrator
NextApp ==
    \/ \E t \in Callers :
        \/ AppChatInput(t)
        \/ RouteStore(t)
        \/ RouteClassify(t)
        \/ RouteDispatch(t)
        \/ AppRecord(t)
    \/ AppClearChat

SpecApp == Init /\ [][NextApp]_vars

\* two sessions served at the same time by the one cached Orchestrator, each
\* thread with its own session id; the steps of their calls interleave
SessionOf(t) == IF t = 1 THEN "default" ELSE "s1"
ConcQueries == { <<"h","a","l","o">> }
ConcHistories == { [i \in 1..n |-> ScriptTurn(i)] : n \in {0, 2, MaxHistory} }

OwnRouteQuery(t) ==
    /\ \E user_query \in ConcQueries, history \in ConcHistories :
         RouteEnter(t, user_query, history, SessionOf(t), FALSE)
    /\ UNCHANGED messages

OwnClearMemory(t) == ClearEnter(t, SessionOf(t))

NextSessions ==
    \E t \in Threads :
        \/ OwnRouteQuery(t)
        \/ RouteStore(t)
        \/ RouteClassifyOn(t, {{"USE_RAG"}})
        \/ RouteDispatchOn(t, {"ok"}, {"docs"}, {"ok", "raise"},
                           {"Found 3: Job A, Job B, Job C"})
        \/ OwnClearMemory(t)
        \/ ClearDelete(t)

SpecSessions == Init /\ [][NextSessions]_vars

\* two threads using the one cached Orchestrator with the same session id
\* (the default of both methods); the steps of their calls interleave
SharedSession == "default"

SharedRouteQuery(t) ==
    /\ \E user_query \in ConcQueries, history \in ConcHistories :
         RouteEnter(t, user_query, history, SharedSession, FALSE)
    /\ UNCHANGED messages

SharedClearMemory(t) == ClearEnter(t, SharedSession)

NextShared ==
    \E t \in Threads :
        \/ SharedRouteQuery(t)
        \/ RouteStore(t)
        \/ RouteClassifyOn(t, {{"USE_RAG"}})
        \/ RouteDispatchOn(t, {"ok"}, {"docs"}, {"ok", "raise"},
                           {"Found 3: Job A, Job B, Job C"})
        \/ SharedClearMemory(t)
        \/ ClearDelete(t)

SpecShared == Init /\ [][NextShared]_vars

TypeOK ==
    /\ DOMAIN context_memory \subseteq Sessions
    /\ \A t \in Threads : call[t].pc \in {"idle", "store", "classify", "dispatch", "delete", "app_record"}

\* ------------------------------------------------------------------ claims
\* a route_query call that has returned to its caller
Returned(c) == c.op = "route" /\ c.pc \in {"idle", "app_record"}
\* a route_query call that has called a responder
Dispatched(c) == c.op = "route" /\ c.request.to # "none"
\* a clear_memory call that has returned or raised
Cleared(c) == c.op = "clear" /\ c.pc = "idle"

\* C1: whatever histories the callers pass, no session's stored history is
\* longer than 10 turns.
C1_StoredHistoryBounded ==
    \A s \in DOMAIN context_memory : Len(context_memory[s]) <= 10

\* a history longer than 10 turns was passed and its session holds 10 turns
C1_Witness ==
    \E t \in Threads :
        /\ Returned(call[t])
        /\ Len(call[t].history) > 10
        /\ call[t].session_id \in DOMAIN context_memory
        /\ Len(context_memory[call[t].session_id]) = 10

\* C2: a responder that raises never makes route_query raise; the call
\* returns the one fixed, non-empty apology.
C2_ResponderFailureReturnsApology ==
    \A t \in Threads :
        (Returned(call[t]) /\ call[t].raised = "responder") =>
            /\ ~call[t].escaped
            /\ call[t].result = "Maaf, ada kendala teknis. Bisa ulangi pertanyaannya?"
            /\ call[t].result # ""

\* the retrieval responder and the chat responder have each raised
C2_Witness ==
    \E t \in Threads :
        /\ Returned(call[t])
        /\ call[t].raised = "responder"
        /\ call[t].request.to \in {"rag", "chat"}

\* C3 as claimed: when the responder raises, the store is exactly what it was
\* before the call.
C3_StoreUntouchedOnFailure ==
    \A t \in Threads :
        (Returned(call[t]) /\ call[t].raised = "responder") =>
            context_memory = call[t].pre

\* C3 amended: when the responder raises, route_query has stored no turn of
\* the failed exchange; the session's entry is what step 1 wrote before the
\* dispatch (the last 10 turns of a non-empty history argument, else the
\* entry it had, created empty when absent) and no other entry changed.
C3_FailureKeepsStepOneStore ==
    \A t \in Threads :
        LET c == call[t] IN
        (Returned(c) /\ c.raised = "responder") =>
            /\ DOMAIN context_memory = DOMAIN c.pre \cup {c.session_id}
            /\ context_memory[c.session_id] =
                 IF c.history # << >> THEN LastN(c.history, 10)
                 ELSE IF c.session_id \in DOMAIN c.pre THEN c.pre[c.session_id]
                 ELSE << >>
            /\ \A x \in DOMAIN c.pre \ {c.session_id} : context_memory[x] = c.pre[x]

\* a responder raised in a call that replaced a non-empty entry
C3_Witness ==
    \E t \in Threads :
        LET c == call[t] IN
        /\ Returned(c) /\ c.raised = "responder"
        /\ c.history # << >>
        /\ c.session_id \in DOMAIN c.pre
        /\ c.pre[c.session_id] # << >>
        /\ c.pre[c.session_id] # context_memory[c.session_id]

\* C4 as claimed: a classifier output that names none or several of the
\* category tokens is dispatched to the retrieval responder.
C4_AmbiguousGoesToRetrieval ==
    \A t \in Threads :
        (Dispatched(call[t]) /\ Cardinality(call[t].decision) # 1) =>
            call[t].request.to = "rag"

\* C4 amended: an output naming none of the tokens, or only CHAT, goes to the
\* chat responder; an output naming several goes to the structured responder
\* when USE_SQL is among them and to the retrieval responder otherwise.
C4_AmbiguousFollowsTestOrder ==
    \A t \in Threads :
        LET c == call[t] IN
        (Dispatched(c) /\ Cardinality(c.decision) # 1) =>
            /\ c.decision = {} => c.request.to = "chat"
            /\ "USE_SQL" \in c.decision => c.request.to = "sql"
            /\ c.decision = {"USE_RAG", "CHAT"} => c.request.to = "rag"

\* an output naming no token was dispatched, and one naming two
C4_Witness ==
    \E t \in Threads :
        /\ Dispatched(call[t])
        /\ call[t].decision \in {{}, {"USE_SQL", "USE_RAG"}}

\* C5 as claimed: when the classification call raises, the query goes to the
\* retrieval responder and its answer is returned.
C5_ClassifierFailureGoesToRetrieval ==
    \A t \in Threads :
        (Returned(call[t]) /\ call[t].classified = "raised") =>
            /\ call[t].request.to = "rag"
            /\ call[t].result # Apology

\* C5 amended: when the classification call raises, route_query does not
\* raise; it calls no responder and returns the fixed apology.
C5_ClassifierFailureReturnsApology ==
    \A t \in Threads :
        (Returned(call[t]) /\ call[t].classified = "raised") =>
            /\ ~call[t].escaped
            /\ call[t].request.to = "none"
            /\ call[t].retrieval = "none"
            /\ call[t].result = Apology

\* the classification call raised and the call has returned
C5_Witness ==
    \E t \in Threads :
        /\ Returned(call[t])
        /\ call[t].classified = "raised"
        /\ call[t].raised = "classifier"

\* C6: a call without a history argument, for a session whose stored history
\* is not empty, gives the classifier and the responder a context built from
\* the stored history.
C6_StoredHistoryFeedsContext ==
    \A t \in Threads :
        LET c == call[t] IN
        ( /\ c.op = "route" /\ c.classified # "no"
          /\ c.history = << >>
          /\ c.session_id \in DOMAIN c.pre
          /\ c.pre[c.session_id] # << >> ) =>
            /\ TextLen(c.context_ref) > 0
            /\ \E i \in 1..Len(c.router_input) : c.router_input[i].k = "content"

\* C7: clear_memory(s) by a single caller raises nothing, leaves s without
\* an entry and every other entry as it was; a second call in a row changes
\* nothing.
C7_ClearMemoryIdempotent ==
    \A t \in Threads :
        LET c == call[t] IN
        Cleared(c) =>
            /\ ~c.escaped
            /\ c.session_id \notin DOMAIN context_memory
            /\ DOMAIN context_memory = DOMAIN c.pre \ {c.session_id}
            /\ \A x \in DOMAIN context_memory : context_memory[x] = c.pre[x]
            /\ c.repeated => context_memory = c.pre

\* clear_memory(s) has run twice in a row, the second time with s absent
C7_Witness ==
    \E t \in Threads :
        /\ Cleared(call[t])
        /\ call[t].repeated
        /\ call[t].session_id \notin DOMAIN call[t].pre

\* C8: the Smart Chat history holds no apology and no error text, and an
\* exchange that is over has left one user turn and one assistant turn.
C8_NoFailureTextInMessages ==
    /\ \A i \in 1..Len(messages) :
         messages[i].role = "assistant" =>
            messages[i].content \notin {Apology, SqlError}
    /\ (\A t \in Threads : call[t].pc = "idle") => Len(messages) % 2 = 0

\* C9: a request to the retrieval or the chat responder ends with the raw
\* query and carries, before it, the rendered summary of the session's
\* history, or the no-previous-conversation marker when there is none.
ContextBlock(request) ==
    IF request.to = "rag"
    THEN SubSeq(request.text, 1, Len(request.text) - 2)
    ELSE request.system

Contains(text, part) ==
    \E i \in 0..(Len(text) - Len(part)) : SubSeq(text, i + 1, i + Len(part)) = part

C9_ContextBlockAlwaysPresent ==
    \A t \in Threads :
        LET c == call[t]
            stored == context_memory[c.session_id]
        IN
        (Dispatched(c) /\ c.request.to \in {"rag", "chat"}) =>
            /\ c.request.text[Len(c.request.text)] = QueryPiece(c.user_query)
            /\ IF stored # << >>
               THEN Contains(ContextBlock(c.request), _create_context_summary(stored))
               ELSE Contains(ContextBlock(c.request), << NoConversationMarker >>)

\* C10: the structured responder gets the context block before the query
\* only for a query with a cue word; otherwise it gets the raw query alone.
C10_SqlContextOnlyWithCue ==
    \A t \in Threads :
        LET c == call[t] IN
        (Dispatched(c) /\ c.request.to = "sql") =>
            \/ c.request.text = << QueryPiece(c.user_query) >>
            \/ /\ HasSqlCue(c.user_query)
               /\ TextLen(c.context_ref) > 0
               /\ c.request.text = c.context_ref \o << BlankLine, QueryPiece(c.user_query) >>

\* the structured responder got a context block, and in another call a raw
\* query although the call had a context
C10_Witness ==
    \E t \in Threads :
        LET c == call[t] IN
        /\ Dispatched(c) /\ c.request.to = "sql"
        /\ c.history # << >>
        /\ \/ Len(c.request.text) > 1
           \/ ~HasSqlCue(c.user_query)

\* C11 as claimed: an empty or whitespace-only query always goes to the
\* conversation responder, whatever the classifier returns.
C11_BlankQueryGoesToChat ==
    \A t \in Threads :
        (Dispatched(call[t]) /\ IsBlank(call[t].user_query)) =>
            call[t].request.to = "chat"

\* C11 amended: an empty or whitespace-only query is classified like any
\* other; it goes to the structured responder when the output names USE_SQL,
\* to the retrieval responder when it names USE_RAG and not USE_SQL, and to
\* the conversation responder only otherwise.
C11_BlankQueryFollowsClassifier ==
    \A t \in Threads :
        LET c == call[t] IN
        (Dispatched(c) /\ IsBlank(c.user_query)) =>
            /\ c.classified = "returned"
            /\ c.router_input[Len(c.router_input)] = QueryPiece(c.user_query)
            /\ "USE_SQL" \in c.decision => c.request.to = "sql"
            /\ ("USE_SQL" \notin c.decision /\ "USE_RAG" \in c.decision) =>
                  c.request.to = "rag"
            /\ c.decision \cap {"USE_SQL", "USE_RAG"} = {} => c.request.to = "chat"

\* a whitespace-only query was dispatched to the structured responder
C11_Witness ==
    \E t \in Threads :
        /\ Dispatched(call[t])
        /\ call[t].user_query = <<" ">>
        /\ call[t].request.to = "sql"

\* C13: when the SQL agent executor would answer the request without error,
\* SQLAgent.run returns the executor's output.
C13_SqlBackendOutputReturned ==
    \A t \in Threads :
        (Dispatched(call[t]) /\ call[t].request.to = "sql" /\ call[t].backend = "ok") =>
            call[t].result = SqlOutput

\* C14: SQLAgent.run never raises; an error raised while it answers comes
\* back as an error text, which route_query returns as the answer.
C14_SqlRunNeverRaises ==
    \A t \in Threads :
        LET c == call[t] IN
        (Dispatched(c) /\ c.request.to = "sql") =>
            /\ c.raised = "none"
            /\ ~c.escaped
            /\ (c.backend = "raise" \/ ~SqlHandlerSet) =>
                  c.result \in {SqlError, SqlBackendError}

\* the structured responder was called while its backend was failing
C14_Witness ==
    \E t \in Threads :
        /\ Returned(call[t])
        /\ call[t].request.to = "sql"
        /\ call[t].backend = "raise"

C16_NoLackingInfoAnswer ==
    \A t \in Threads :
        LET c == call[t] IN
        (Dispatched(c) /\ c.request.to = "rag" /\ c.index = "empty" /\ c.gen = "ok") =>
            /\ c.result # ""
            /\ c.result # LacksInfo

\* C19 as claimed: an index or embedding failure during retrieval makes
\* route_query return the apology.
C19_IndexFailureIsResponderFailure ==
    \A t \in Threads :
        LET c == call[t] IN
        (Dispatched(c) /\ c.request.to = "rag" /\ c.index = "raise") =>
            /\ c.raised = "responder"
            /\ c.result = Apology

\* C19 amended: an index or embedding failure during retrieval is caught in
\* retrieve_documents; RAGAgent.run goes on as with no document found and,
\* when generation succeeds, route_query returns the generated answer.
C19_IndexFailureIsSwallowed ==
    \A t \in Threads :
        LET c == call[t] IN
        (Dispatched(c) /\ c.request.to = "rag" /\ c.index = "raise") =>
            /\ c.retrieval = "empty"
            /\ c.ndocs = 0
            /\ c.gen = "ok" =>
                  (c.raised = "none" /\ c.result \in Answers /\ c.result # Apology)

\* the index failed and an answer was generated all the same
C19_Witness ==
    \E t \in Threads :
        /\ Returned(call[t])
        /\ call[t].request.to = "rag"
        /\ call[t].index = "raise"
        /\ call[t].gen = "ok"
        /\ call[t].result \in Answers

\* C17: the history passed to the call ends with an assistant turn
EndsWithAssistant(history) ==
    history # << >> /\ history[Len(history)].role = "assistant"

\* the request carries the whole of content
CarriesInFull(request, content) ==
    \/ \E i \in 1..Len(request.text) :
          /\ request.text[i].k = "content"
          /\ request.text[i].c = content
          /\ request.text[i].n = content.len
    \/ \E i \in 1..Len(request.turns) : request.turns[i].content = content

\* C17 as claimed: a follow-up routed to the retrieval or the conversation
\* responder carries the prior assistant turn in full.
C17_PriorAssistantTurnInFull ==
    \A t \in Threads :
        LET c == call[t] IN
        (Dispatched(c) /\ c.request.to \in {"rag", "chat"} /\ EndsWithAssistant(c.history)) =>
            CarriesInFull(c.request, c.history[Len(c.history)].content)

\* C17 amended: the conversation responder gets the prior assistant turn in
\* full, as the last history message.  The retrieval responder gets its first
\* 500 characters when it mentions a job (lowongan, Lowongan, job, Job) and
\* its first 200 otherwise; when the query has a reference word and the
\* history holds a job list, it gets the latest job-list turn in full and no
\* other turn.
C17_PriorAssistantTurnSliced ==
    \A t \in Threads :
        LET c == call[t]
            last == c.history[Len(c.history)].content
            lim == IF last.kw \cap {"lowongan", "Lowongan", "job", "Job"} # {}
                   THEN 500 ELSE 200
            shown == { i \in 1..Len(c.request.text) : c.request.text[i].k = "content" }
            lists == { i \in 1..Len(c.history) :
                         /\ c.history[i].role = "assistant"
                         /\ c.history[i].content.kw \cap {"lowongan", "Lowongan"} # {} }
        IN
        (Dispatched(c) /\ c.request.to \in {"rag", "chat"} /\ EndsWithAssistant(c.history)) =>
            IF c.request.to = "chat"
            THEN c.request.turns[Len(c.request.turns)] = c.history[Len(c.history)]
            ELSE IF HasReferenceWord(c.user_query) /\ lists # {}
            THEN \A i \in shown :
                    /\ c.request.text[i].c = c.history[SetMax(lists)].content
                    /\ c.request.text[i].n = c.request.text[i].c.len
            ELSE \E i \in shown :
                    /\ c.request.text[i].c = last
                    /\ c.request.text[i].n = IF last.len < lim THEN last.len ELSE lim

\* the retrieval responder got a prior assistant turn cut short
C17_Witness ==
    \E t \in Threads :
        LET c == call[t] IN
        /\ Dispatched(c) /\ c.request.to = "rag" /\ EndsWithAssistant(c.history)
        /\ \E i \in 1..Len(c.request.text) :
              /\ c.request.text[i].c = c.history[Len(c.history)].content
              /\ c.request.text[i].n < c.history[Len(c.history)].content.len

\* C18: new is old with its k oldest turns dropped and turns appended, none
\* of the dropped turns being among the turns of new
EvictsAndAppends(old, new) ==
    \E k \in 0..Len(old) :
        /\ Len(old) - k <= Len(new)
        /\ SubSeq(old, k + 1, Len(old)) = SubSeq(new, 1, Len(old) - k)
        /\ \A i \in 1..k : \A j \in 1..Len(new) : new[j] # old[i]

\* C18 as claimed: a stored history changes only by turns appended at its
\* end and oldest turns evicted, and an evicted turn does not come back.
C18_AppendAndFifoEvictionOnly ==
    [][\A s \in DOMAIN context_memory \cap DOMAIN context_memory' :
          EvictsAndAppends(context_memory[s], context_memory'[s])]_vars

\* C18 amended: a stored history is not appended to but replaced: once a call
\* with a non-empty history argument has passed step 1, the session holds the
\* last 10 turns of that argument in the argument's order, whatever it held
\* before, turns dropped earlier included.
C18_StoredIsSuffixOfArgument ==
    \A t \in Threads :
        LET c == call[t]
            stored == context_memory[c.session_id]
            n == IF Len(c.history) < 10 THEN Len(c.history) ELSE 10
        IN
        (c.op = "route" /\ c.pc # "store" /\ c.history # << >>) =>
            /\ Len(stored) = n
            /\ \A i \in 1..n : stored[i] = c.history[Len(c.history) - n + i]

\* a turn dropped by an earlier call is stored again: the session held turns
\* 2..11 of a conversation and now holds a history that starts with turn 1
C18_Witness ==
    \E t \in Threads :
        LET c == call[t] IN
        /\ c.op = "route" /\ c.pc # "store" /\ c.history # << >>
        /\ c.session_id \in DOMAIN c.pre
        /\ Len(c.pre[c.session_id]) = 10
        /\ c.pre[c.session_id][1] # c.history[1]
        /\ context_memory[c.session_id][1] = c.history[1]

\* C20 as claimed: within a route_query call the store is written only
\* after the dispatched responder has returned.
C20_StoreWrittenAfterResponder ==
    [][\A t \in Threads :
          ( /\ call'[t] # call[t]
            /\ call'[t].op = "route"
            /\ context_memory' # context_memory ) =>
                call'[t].request.to # "none"]_vars

\* C20 amended: within a route_query call the store is written only by
\* step 1, before the classifier is called; the classifier returns before a
\* responder is called; neither the classification step nor the dispatch step
\* writes the store.
C20_StoreWrittenBeforeClassification ==
    [][\A t \in Threads :
          (call'[t] # call[t] /\ call'[t].op = "route") =>
              /\ context_memory' # context_memory =>
                    (call'[t].classified = "no" /\ call'[t].request.to = "none")
              /\ call[t].pc \in {"classify", "dispatch"} =>
                    context_memory' = context_memory
              /\ call'[t].request.to # "none" => call[t].classified = "returned"]_vars

\* the store holds the caller's history while the classifier has not been
\* called yet
C20_Witness ==
    \E t \in Threads :
        LET c == call[t] IN
        /\ c.op = "route" /\ c.pc = "classify"
        /\ c.history # << >>
        /\ context_memory # c.pre
        /\ context_memory[c.session_id] = LastN(c.history, 10)

\* C12: with each session served by its own thread and the calls
\* interleaving, no step of a call touches the entry of another session, and
\* the entry of each session is at every moment what its own calls made it.
OwnEntry(c) ==
    CASE c.op = "route" /\ c.pc = "store" ->
           IF c.session_id \in DOMAIN c.pre THEN c.pre[c.session_id] ELSE << >>
      [] c.op = "route" ->
           IF c.history # << >>
           THEN LastN(c.history, 10)
           ELSE IF c.session_id \in DOMAIN c.pre THEN c.pre[c.session_id] ELSE << >>
      [] OTHER -> c.pre[c.session_id]

OwnEntryPresent(c) ==
    CASE c.op = "route" -> TRUE
      [] c.op = "clear" -> c.pc = "delete"
      [] OTHER -> FALSE

C12_SessionsDoNotInterfere ==
    /\ [](\A t \in Threads :
            LET c == call[t] IN
            c.op # "none" =>
               /\ (c.session_id \in DOMAIN context_memory) = OwnEntryPresent(c)
               /\ OwnEntryPresent(c) => context_memory[c.session_id] = OwnEntry(c))
    /\ [][\A t \in Threads :
            call'[t] # call[t] =>
               \A s \in Sessions \ {call'[t].session_id} :
                  /\ (s \in DOMAIN context_memory') = (s \in DOMAIN context_memory)
                  /\ s \in DOMAIN context_memory => context_memory'[s] = context_memory[s]]_vars

\* a clear_memory call deleted its session's entry while a route_query call
\* of the other session, still in progress, wrote its own
C12_Witness ==
    \E t1 \in Threads, t2 \in Threads :
        LET c1 == call[t1]
            c2 == call[t2]
        IN
        /\ c1.session_id # c2.session_id
        /\ Cleared(c1) /\ c1.session_id \in DOMAIN c1.pre
        /\ c2.op = "route" /\ c2.pc \in {"classify", "dispatch"}
        /\ c2.history # << >>
        /\ c2.session_id \notin DOMAIN c1.pre
        /\ context_memory[c2.session_id] = LastN(c2.history, 10)

\* C21: the turns of the history whose text a rendered text holds
ContentIds(text) ==
    { text[i].c.id : i \in { j \in 1..Len(text) : text[j].k = "content" } }

\* the last n turns of the history
RecentIds(history, n) ==
    { LastN(history, n)[i].content.id : i \in 1..Len(LastN(history, n)) }

\* C21 as claimed: only the most recent 5 turns of the history contribute
\* text to what the classifier and the responder are given, for every query.
C21_ContextFromRecentTurnsOnly ==
    \A t \in Threads :
        LET c == call[t] IN
        (c.op = "route" /\ c.classified # "no") =>
            (ContentIds(c.router_input) \cup ContentIds(c.request.text)
                \cup ContentIds(c.request.system)) \subseteq RecentIds(c.history, 5)

\* C21 amended: when the query has no reference word, or no assistant turn of
\* the history argument holds "lowongan" or "Lowongan", only the most recent 5
\* turns contribute text.  When it has one and such a turn exists anywhere in
\* the history argument, the latest such turn alone contributes, whatever its
\* position: the classifier gets it cut (with its header) to 500 characters,
\* the retrieval responder gets it whole.  The conversation responder always
\* gets the summary of the last 5 turns as system text and the last 6 turns as
\* messages.
C21_ContextFromRecentTurnsOrReferredList ==
    \A t \in Threads :
        LET c == call[t]
            lists == { i \in 1..Len(c.history) :
                         /\ c.history[i].role = "assistant"
                         /\ c.history[i].content.kw \cap {"lowongan", "Lowongan"} # {} }
            referred == c.history[SetMax(lists)].content
        IN
        (c.op = "route" /\ c.classified # "no") =>
            /\ ContentIds(c.request.system) \subseteq RecentIds(c.history, 5)
            /\ Dispatched(c) /\ c.request.to = "chat" =>
                  c.request.turns = LastN(c.history, 6)
            /\ IF HasReferenceWord(c.user_query) /\ lists # {}
               THEN /\ ContentIds(c.router_input) = {referred.id}
                    /\ \A i \in 1..Len(c.router_input) :
                          c.router_input[i].k = "content" =>
                             c.router_input[i].n = Min(referred.len, 500 - 47)
                    /\ ContentIds(c.request.text) \subseteq {referred.id}
                    /\ Dispatched(c) /\ c.request.to = "rag" =>
                          \E i \in 1..Len(c.request.text) :
                             /\ c.request.text[i].c = referred
                             /\ c.request.text[i].n = referred.len
               ELSE (ContentIds(c.router_input) \cup ContentIds(c.request.text))
                        \subseteq RecentIds(c.history, 5)

\* a query with a reference word brought the retrieval responder a job list
\* that is older than the last 5 turns of the history
C21_Witness ==
    \E t \in Threads :
        LET c == call[t] IN
        /\ Dispatched(c) /\ c.request.to = "rag"
        /\ HasReferenceWord(c.user_query)
        /\ \E i \in 1..Len(c.request.text) :
              /\ c.request.text[i].k = "content"
              /\ c.request.text[i].c.id \notin RecentIds(c.history, 5)
              /\ c.request.text[i].c.id \in RecentIds(c.history, Len(c.history))
              /\ c.request.text[i].n = c.request.text[i].c.len

\* C22: every route_query invocation calls the classifier exactly once, before
\* any responder; when the classifier returns, exactly one responder is called,
\* exactly once, after it; when it raises, none is.
C22_OneClassificationOneResponder ==
    \A t \in Threads :
        LET c == call[t] IN
        c.op = "route" =>
            /\ c.pc \in {"store", "classify"} =>
                  c.calls = << >> /\ c.classified = "no"
            /\ c.pc = "dispatch" =>
                  c.calls = << "classifier" >> /\ c.classified = "returned"
            /\ Returned(c) =>
                  /\ c.classified \in {"returned", "raised"}
                  /\ c.classified = "raised" =>
                        c.calls = << "classifier" >> /\ c.request.to = "none"
                  /\ c.classified = "returned" =>
                        /\ Len(c.calls) = 2
                        /\ c.calls[1] = "classifier"
                        /\ c.calls[2] \in {"sql", "rag", "chat"}
                        /\ c.calls[2] = c.request.to

\* a decision naming both USE_SQL and USE_RAG was followed by one call of one
\* responder
C22_Witness ==
    \E t \in Threads :
        LET c == call[t] IN
        /\ Returned(c) /\ c.classified = "returned"
        /\ c.decision = {"USE_SQL", "USE_RAG"}
        /\ c.calls = << "classifier", "sql" >>

\* C23: with two threads using the same session id and their calls
\* interleaving, no clear_memory call raises, and the session is absent or
\* holds at most 10 turns.
C23_ConcurrentClearNeverRaises ==
    /\ \A t \in Threads :
          call[t].op = "clear" => (call[t].raised = "none" /\ ~call[t].escaped)
    /\ \A s \in DOMAIN context_memory : Len(context_memory[s]) <= 10

====
